---- MODULE Spec2Model ----
(***************************************************************************)
(* A model of src/data/fetch_anniv.py: the AnniversaryFetcher object, its  *)
(* text extractor, the 365-day fetch loop, the reports and the two         *)
(* exporters, as run by main().                                            *)
(*                                                                         *)
(* Text is modelled as a sequence of one-character strings, so that        *)
(* formatting, trimming, joining, quoting and escaping are computed and    *)
(* not assumed.  The character U+3001 (the ideographic comma) is written   *)
(* as the one-element token "U+3001".                                      *)
(***************************************************************************)
EXTENDS Integers, Sequences, FiniteSets, TLC

VARIABLES
    pc,             \* position of main(): which call or loop step is next
    i,              \* loop variable of fetch_all_365_days
    current_date,   \* the loop's current_date, [year, month, day]
    data,           \* self.data: DateKey -> text
    errors,         \* self.errors: list of failure descriptions
    success_count,  \* self.success_count
    console,        \* what has been printed, in order
    csvFile,        \* anniversaries.csv: Absent or its sequence of rows
    jsonFile,       \* anniversaries.json: Absent or its sequence of members
    server,         \* the remote service's behaviour during this run
    calls,          \* history: the (month, day) arguments of fetch_single_date
    sleeps,         \* history: number of time.sleep calls made
    unslept,        \* history: requests issued since the last sleep
    extracted,      \* history: number of calls of extract_anniversary_text
    last,           \* history: the last fetch_single_date call and its result
    ioLog           \* history: outcome of each exporter's file operation

vars == <<pc, i, current_date, data, errors, success_count, console, csvFile,
          jsonFile, server, calls, sleeps, unslept, extracted, last, ioLog>>

----------------------------------------------------------------------------
(* Bounds of the model *)

\* The service answers every Period-th request of a run differently.
Period == 2
\* Longest JSON array among the extractor's inputs.
MaxLen == 3
\* Most keys of a JSON object among the extractor's inputs.
MaxKeys == 2

----------------------------------------------------------------------------
(* Text *)

Sep == "U+3001"
Whitespace == {" ", "\t", "\n", "\r"}

RECURSIVE LStrip(_)
LStrip(t) == IF t # <<>> /\ Head(t) \in Whitespace THEN LStrip(Tail(t)) ELSE t

RECURSIVE RStrip(_)
RStrip(t) ==
    IF t # <<>> /\ t[Len(t)] \in Whitespace
    THEN RStrip(SubSeq(t, 1, Len(t) - 1)) ELSE t

\* str.strip()
Strip(t) == RStrip(LStrip(t))

\* sep.join(parts)
RECURSIVE Join(_, _)
Join(sep, parts) ==
    IF parts = <<>> THEN <<>>
    ELSE IF Len(parts) = 1 THEN parts[1]
    ELSE parts[1] \o sep \o Join(sep, Tail(parts))

DigitChar == <<"0", "1", "2", "3", "4", "5", "6", "7", "8", "9">>

\* str(n) of a non-negative int
RECURSIVE IntStr(_)
IntStr(n) ==
    IF n < 10 THEN <<DigitChar[n + 1]>>
    ELSE IntStr(n \div 10) \o <<DigitChar[(n % 10) + 1]>>

RECURSIVE Replicate(_, _)
Replicate(c, n) == IF n <= 0 THEN <<>> ELSE <<c>> \o Replicate(c, n - 1)

\* f"{n:02d}": at least two digits, zero-padded on the left
Fmt02d(n) == Replicate("0", 2 - Len(IntStr(n))) \o IntStr(n)

\* The number of occurrences of character c in text t
RECURSIVE Count(_, _)
Count(c, t) ==
    IF t = <<>> THEN 0
    ELSE (IF Head(t) = c THEN 1 ELSE 0) + Count(c, Tail(t))

----------------------------------------------------------------------------
(* Parsed JSON values, as Python objects *)

JNull == [t |-> "null"]
JBool(b) == [t |-> "bool", b |-> b]
JInt(n) == [t |-> "int", n |-> n]
JStr(s) == [t |-> "str", s |-> s]
JList(xs) == [t |-> "list", xs |-> xs]
\* A dict keeps its insertion order: ks are the keys, vs their values.
JDict(ks, vs) == [t |-> "dict", ks |-> ks, vs |-> vs]

HasKey(d, k) == \E n \in 1..Len(d.ks) : d.ks[n] = k
Lookup(d, k) == d.vs[CHOOSE n \in 1..Len(d.ks) : d.ks[n] = k]

\* Python truth value, as used by "if item"
Truthy(v) ==
    CASE v.t = "null" -> FALSE
      [] v.t = "bool" -> v.b
      [] v.t = "int" -> v.n # 0
      [] v.t = "str" -> v.s # <<>>
      [] v.t = "list" -> v.xs # <<>>
      [] v.t = "dict" -> v.ks # <<>>

\* repr() of a str without quotes or backslashes in it
ReprChar(c) ==
    CASE c = "\n" -> <<"\\", "n">>
      [] c = "\r" -> <<"\\", "r">>
      [] c = "\t" -> <<"\\", "t">>
      [] OTHER -> <<c>>

RECURSIVE ReprBody(_)
ReprBody(s) == IF s = <<>> THEN <<>> ELSE ReprChar(Head(s)) \o ReprBody(Tail(s))

RECURSIVE PyRepr(_)
RECURSIVE ReprItems(_)
RECURSIVE ReprPairs(_, _)

ReprItems(xs) ==
    IF xs = <<>> THEN <<>>
    ELSE IF Len(xs) = 1 THEN PyRepr(xs[1])
    ELSE PyRepr(xs[1]) \o <<",", " ">> \o ReprItems(Tail(xs))

ReprPairs(ks, vs) ==
    IF ks = <<>> THEN <<>>
    ELSE LET one == <<"'">> \o ReprBody(ks[1]) \o <<"'", ":", " ">> \o PyRepr(vs[1])
         IN IF Len(ks) = 1 THEN one
            ELSE one \o <<",", " ">> \o ReprPairs(Tail(ks), Tail(vs))

PyRepr(v) ==
    CASE v.t = "null" -> <<"N", "o", "n", "e">>
      [] v.t = "bool" -> IF v.b THEN <<"T", "r", "u", "e">>
                         ELSE <<"F", "a", "l", "s", "e">>
      [] v.t = "int" -> IntStr(v.n)
      [] v.t = "str" -> <<"'">> \o ReprBody(v.s) \o <<"'">>
      [] v.t = "list" -> <<"[">> \o ReprItems(v.xs) \o <<"]">>
      [] v.t = "dict" -> <<"{">> \o ReprPairs(v.ks, v.vs) \o <<"}">>

\* str(): a str is itself, everything else its repr
PyStr(v) == IF v.t = "str" THEN v.s ELSE PyRepr(v)

\* The escapes json.dumps(..., ensure_ascii=False) applies inside a string
JsonChar(c) ==
    CASE c = "\"" -> <<"\\", "\"">>
      [] c = "\\" -> <<"\\", "\\">>
      [] c = "\n" -> <<"\\", "n">>
      [] c = "\r" -> <<"\\", "r">>
      [] c = "\t" -> <<"\\", "t">>
      [] OTHER -> <<c>>

RECURSIVE JsonBody(_)
JsonBody(s) == IF s = <<>> THEN <<>> ELSE JsonChar(Head(s)) \o JsonBody(Tail(s))

JsonString(s) == <<"\"">> \o JsonBody(s) \o <<"\"">>

RECURSIVE JsonDumps(_)
RECURSIVE DumpItems(_)
RECURSIVE DumpPairs(_, _)

DumpItems(xs) ==
    IF xs = <<>> THEN <<>>
    ELSE IF Len(xs) = 1 THEN JsonDumps(xs[1])
    ELSE JsonDumps(xs[1]) \o <<",", " ">> \o DumpItems(Tail(xs))

DumpPairs(ks, vs) ==
    IF ks = <<>> THEN <<>>
    ELSE LET one == JsonString(ks[1]) \o <<":", " ">> \o JsonDumps(vs[1])
         IN IF Len(ks) = 1 THEN one
            ELSE one \o <<",", " ">> \o DumpPairs(Tail(ks), Tail(vs))

\* json.dumps(v, ensure_ascii=False)
JsonDumps(v) ==
    CASE v.t = "null" -> <<"n", "u", "l", "l">>
      [] v.t = "bool" -> IF v.b THEN <<"t", "r", "u", "e">>
                         ELSE <<"f", "a", "l", "s", "e">>
      [] v.t = "int" -> IntStr(v.n)
      [] v.t = "str" -> JsonString(v.s)
      [] v.t = "list" -> <<"[">> \o DumpItems(v.xs) \o <<"]">>
      [] v.t = "dict" -> <<"{">> \o DumpPairs(v.ks, v.vs) \o <<"}">>

----------------------------------------------------------------------------
(* HTTP responses and the text extractor *)

\* What response.json() does: returns a value, raises JSONDecodeError, or
\* raises something else (RecursionError on a body nested too deeply).
Parsed(v) == [kind |-> "value", v |-> v]
DecodeError == [kind |-> "JSONDecodeError"]
OtherError == [kind |-> "RecursionError"]

Response(status, text, json) == [status |-> status, text |-> text, json |-> json]

KEvents == <<"e", "v", "e", "n", "t", "s">>
KData == <<"d", "a", "t", "a">>
KAnniv == <<"a", "n", "n", "i", "v">>
KAnniversaries == <<"a", "n", "n", "i", "v", "e", "r", "s", "a", "r", "i", "e", "s">>
KItems == <<"i", "t", "e", "m", "s">>

ReversedKeys == <<KItems, KAnniversaries, KAnniv, KData, KEvents>>
CandidateKeys == <<KEvents, KData, KAnniv, KAnniversaries, KItems>>

\* [str(item) for item in xs if item]
RECURSIVE Names(_)
Names(xs) ==
    IF xs = <<>> THEN <<>>
    ELSE (IF Truthy(Head(xs)) THEN <<PyStr(Head(xs))>> ELSE <<>>) \o Names(Tail(xs))

JoinNames(xs) == Join(<<Sep>>, Names(xs))

\* The for loop over the candidate keys, from position n on
RECURSIVE ScanKeys(_, _)
ScanKeys(d, keys) ==
    IF keys = <<>> THEN JsonDumps(d)
    ELSE IF HasKey(d, Head(keys))
         THEN LET items == Lookup(d, Head(keys))
              IN IF items.t = "list" THEN JoinNames(items.xs) ELSE PyStr(items)
         ELSE ScanKeys(d, Tail(keys))

Fallback(response) == Strip(response.text)

extract_anniversary_text(response) ==
    IF response.json.kind = "JSONDecodeError" THEN Fallback(response)
    ELSE IF response.json.kind # "value" THEN Fallback(response)
    ELSE LET json_data == response.json.v
         IN IF json_data.t = "list" THEN JoinNames(json_data.xs)
            ELSE IF json_data.t = "dict" THEN ScanKeys(json_data, CandidateKeys)
            ELSE PyStr(json_data)

\* The diagnostic the extractor prints for an unexpected exception
ExtractDiagnostic(response) ==
    IF response.json.kind \notin {"value", "JSONDecodeError"}
    THEN <<[line |-> "extract_error", what |-> response.json.kind]>>
    ELSE <<>>

----------------------------------------------------------------------------
(* The calendar: datetime.date and timedelta(days=1) *)

NumDays == 365
LastSleepIndex == 364
ProgressEvery == 30
StartYear == 2024
PreviewLen == 50
SampleLen == 80
SampleCount == 15
ErrorsShown == 3

IsLeap(y) == (y % 4 = 0 /\ y % 100 # 0) \/ y % 400 = 0

DaysInMonth(y, m) ==
    IF m = 2 THEN (IF IsLeap(y) THEN 29 ELSE 28)
    ELSE IF m \in {4, 6, 9, 11} THEN 30 ELSE 31

Date(y, m, d) == [year |-> y, month |-> m, day |-> d]

\* d + timedelta(days=1)
AddOneDay(d) ==
    IF d.day < DaysInMonth(d.year, d.month) THEN Date(d.year, d.month, d.day + 1)
    ELSE IF d.month < 12 THEN Date(d.year, d.month + 1, 1)
    ELSE Date(d.year + 1, 1, 1)

NeverSkipped(d) == FALSE
IsSkipped(d) == d.month = 2 /\ d.day = 29

\* Lines 99-103: the next date of the loop
NextDate(d) ==
    LET n == AddOneDay(d) IN IF IsSkipped(n) THEN AddOneDay(n) ELSE n

UnpaddedKey(month, day) == IntStr(month) \o <<"-">> \o IntStr(day)
DateKey(month, day) == Fmt02d(month) \o <<"-">> \o Fmt02d(day)

MMDD(month, day) == Fmt02d(month) \o Fmt02d(day)

----------------------------------------------------------------------------
(* Python dict: an insertion-ordered mapping *)

EmptyDict == [ks |-> <<>>, vs |-> <<>>]

Keys(d) == {d.ks[n] : n \in 1..Len(d.ks)}

\* d[k] = v
DictSet(d, k, v) ==
    IF \E n \in 1..Len(d.ks) : d.ks[n] = k
    THEN [d EXCEPT !.vs[CHOOSE n \in 1..Len(d.ks) : d.ks[n] = k] = v]
    ELSE [ks |-> Append(d.ks, k), vs |-> Append(d.vs, v)]

\* d[k]
DictGet(d, k) == d.vs[CHOOSE n \in 1..Len(d.ks) : d.ks[n] = k]

----------------------------------------------------------------------------
(* fetch_single_date *)

\* The outcome of requests.get(url, timeout=15): an exception of the
\* requests library, or a response.
Raised(exc) == [kind |-> "exception", exc |-> exc]
Received(response) == [kind |-> "response", response |-> response]

\* response.raise_for_status(): HTTPError for a 4xx or 5xx status
OnlyServerErrors(status) == 500 <= status /\ status < 600
RaisesUnless200(status) == status # 200
RaisesForStatus(status) == 400 <= status /\ status < 600

HTTPErrorText(status) ==
    IntStr(status) \o
    (IF status < 500
     THEN <<" ", "C", "l", "i", "e", "n", "t", " ", "E", "r", "r", "o", "r">>
     ELSE <<" ", "S", "e", "r", "v", "e", "r", " ", "E", "r", "r", "o", "r">>)

\* str(e) of the RequestException the try block ends in
ExceptionText(outcome) ==
    IF outcome.kind = "response" THEN HTTPErrorText(outcome.response.status)
    ELSE IF outcome.exc = "Timeout" THEN <<"t", "i", "m", "e", "d", " ", "o", "u", "t">>
    ELSE <<"r", "e", "f", "u", "s", "e", "d">>

\* Whether lines 60-61 raise a RequestException
RequestRaises(outcome) ==
    outcome.kind = "exception" \/ RaisesForStatus(outcome.response.status)

\* t[:n] + "..." if len(t) > n else t
Truncate(t, n) == IF Len(t) > n THEN SubSeq(t, 1, n) \o <<".", ".", ".">> ELSE t

\* self.errors.append(error_msg)
DropFailure(errs, error_msg) == errs
RecordFailure(errs, error_msg) == Append(errs, error_msg)

KeptFailureText == <<"?">>
FailureText == <<>>

\* The call fetch_single_date(month, day) on a fetcher whose fields are
\* self, when the request ends in outcome: the fields afterwards, what
\* was printed, the return value and the number of extractor calls.
fetch_single_date(self, month, day, outcome) ==
    LET date_key == DateKey(month, day) IN
    IF RequestRaises(outcome)
    THEN LET error_msg == date_key \o <<":", " ">> \o ExceptionText(outcome)
         IN [data |-> DictSet(self.data, date_key, FailureText),
             errors |-> RecordFailure(self.errors, error_msg),
             success_count |-> self.success_count,
             printed |-> <<[line |-> "fail", text |-> error_msg]>>,
             ret |-> FALSE,
             extractor_calls |-> 0]
    ELSE LET anniversary_text == extract_anniversary_text(outcome.response)
             display_text == Truncate(anniversary_text, PreviewLen)
         IN [data |-> DictSet(self.data, date_key, anniversary_text),
             errors |-> self.errors,
             success_count |-> self.success_count + 1,
             printed |-> ExtractDiagnostic(outcome.response) \o
                         <<[line |-> "ok",
                            text |-> date_key \o <<":", " ">> \o display_text]>>,
             ret |-> TRUE,
             extractor_calls |-> 1]

Self == [data |-> data, errors |-> errors, success_count |-> success_count]

----------------------------------------------------------------------------
(* The exporters' formats *)

\* ord(c) of the characters a DateKey is made of
CodePoint(c) ==
    IF c = "-" THEN 45 ELSE 48 + (CHOOSE n \in 0..9 : DigitChar[n + 1] = c)

\* a < b for two str
RECURSIVE LexLess(_, _)
LexLess(a, b) ==
    IF b = <<>> THEN FALSE
    ELSE IF a = <<>> THEN TRUE
    ELSE IF Head(a) = Head(b) THEN LexLess(Tail(a), Tail(b))
    ELSE CodePoint(Head(a)) < CodePoint(Head(b))

\* sorted(d.keys())
SortedKeys(d) == SortSeq(d.ks, LexLess)

\* csv.writer's default dialect: a field holding the delimiter, the quote
\* character or a line break is quoted, its quotes doubled; rows end "\r\n".
CsvSpecial == {",", "\"", "\r", "\n"}

RECURSIVE DoubleQuotes(_)
DoubleQuotes(t) ==
    IF t = <<>> THEN <<>>
    ELSE (IF Head(t) = "\"" THEN <<"\"", "\"">> ELSE <<Head(t)>>) \o DoubleQuotes(Tail(t))

CsvField(t) ==
    IF \E n \in 1..Len(t) : t[n] \in CsvSpecial
    THEN <<"\"">> \o DoubleQuotes(t) \o <<"\"">>
    ELSE t

\* writer.writerow(fields)
CsvRow(fields) ==
    Join(<<",">>, [n \in 1..Len(fields) |-> CsvField(fields[n])]) \o <<"\r", "\n">>

HeaderRow == CsvRow(<<<<"d", "a", "t", "e">>, <<"n", "a", "m", "e">>>>)

\* Lines 123-126: the rows save_to_csv writes
NoHeaderRows(d) ==
    LET keys == SortedKeys(d)
    IN [n \in 1..Len(keys) |-> CsvRow(<<keys[n], DictGet(d, keys[n])>>)]
CsvRows(d) ==
    LET keys == SortedKeys(d)
    IN <<HeaderRow>> \o [n \in 1..Len(keys) |-> CsvRow(<<keys[n], DictGet(d, keys[n])>>)]

\* Lines 136-138: the members of the object save_to_json dumps, one per
\* key, each on its own line "  <key>: <value>" of the indented output
JsonMembers(d) ==
    LET keys == SortedKeys(d)
    IN [n \in 1..Len(keys) |->
          <<" ", " ">> \o JsonString(keys[n]) \o <<":", " ">>
          \o JsonString(DictGet(d, keys[n]))]

Absent == "absent"

\* open(filename, 'w') and the writes: done, refused at open, or broken
\* off after part of the content (an OSError either way)
IOOutcomes == {"ok", "open_error", "write_error"}
PartialLengths == {0, 1}

\* "except IOError": IOError is OSError, which every file error is
CatchesNothing(exc) == FALSE
CaughtAsIOError(exc) == exc \in {"OSError"}

\* The file after an attempt to write content to it
FileAfter(file, content, io, k) ==
    IF io = "ok" THEN content
    ELSE IF io = "open_error" THEN file
    ELSE SubSeq(content, 1, k)

----------------------------------------------------------------------------
(* The remote service *)

TextA == <<"A">>
TextB == <<"B">>
TextC == <<"C">>

\* A body that is not JSON: blanks around it, and a comma, a quote and a
\* line break inside
PlainBody == <<" ", "a", ",", "\"", "\n", "b", " ", "\n">>
HelloBody == <<"h", "e", "l", "l", "o", " ", "w", "o", "r", "l", "d">>
NotFoundBody == <<"N", "o", "t", " ", "F", "o", "u", "n", "d">>
DeepBody == <<"[", "[", "[", "[">>

JsonOk(status, v) == Received(Response(status, JsonDumps(v), Parsed(v)))
TextOk(status, t) == Received(Response(status, t, DecodeError))

\* The outcomes a request of the 365-day run may have
LoopOutcomes ==
    { Raised("Timeout"),
      TextOk(404, NotFoundBody),
      TextOk(304, <<>>),
      JsonOk(200, JList(<<JStr(TextA), JNull, JStr(TextB)>>)),
      TextOk(200, PlainBody) }

\* The service during one run: every Period-th request (those whose index
\* is phase modulo Period) ends in rare, the others in usual.
Servers ==
    [usual : LoopOutcomes, rare : LoopOutcomes, phase : 0..(Period - 1)]

OutcomeOf(n) == IF n % Period = server.phase THEN server.rare ELSE server.usual

----------------------------------------------------------------------------
(* main(): the run *)

NoCall == [month |-> 0, day |-> 0, key |-> <<>>, outcome |-> Raised("none"),
           ret |-> FALSE, extractor_calls |-> 0,
           before |-> [data |-> EmptyDict, errors |-> <<>>, success_count |-> 0]]

\* The state after AnniversaryFetcher(delay=1.0) in main()
Constructed ==
    /\ i = 0
    /\ data = EmptyDict
    /\ errors = <<>>
    /\ success_count = 0
    /\ console = <<>>
    /\ csvFile = Absent
    /\ jsonFile = Absent
    /\ calls = <<>>
    /\ sleeps = 0
    /\ unslept = 0
    /\ extracted = 0
    /\ last = NoCall
    /\ ioLog = [csv |-> "none", json |-> "none"]

Init ==
    /\ pc = "fetch_all"
    /\ server \in Servers
    /\ current_date = Date(StartYear, 1, 1)
    /\ Constructed

\* The effect of one call of fetch_single_date with result r on the
\* fetcher's fields and on the history
Called(r, month, day, outcome) ==
    /\ data' = r.data
    /\ errors' = r.errors
    /\ success_count' = r.success_count
    /\ calls' = Append(calls, <<month, day>>)
    /\ unslept' = unslept + 1
    /\ extracted' = extracted + r.extractor_calls
    /\ last' = [month |-> month, day |-> day, key |-> DateKey(month, day),
                outcome |-> outcome, ret |-> r.ret,
                extractor_calls |-> r.extractor_calls, before |-> Self]

\* Lines 81-87
BeginFetchAll ==
    /\ pc = "fetch_all"
    /\ console' = Append(console, [line |-> "banner"])
    /\ current_date' = Date(StartYear, 1, 1)
    /\ i' = 0
    /\ pc' = "fetch"
    /\ UNCHANGED <<data, errors, success_count, csvFile, jsonFile, server, calls,
                   sleeps, unslept, extracted, last, ioLog>>

\* Lines 90-103: one fetch, the progress block, the next date
FetchStep ==
    /\ pc = "fetch"
    /\ LET outcome == OutcomeOf(i)
           r == fetch_single_date(Self, current_date.month, current_date.day, outcome)
           block == IF (i + 1) % ProgressEvery = 0
                    THEN <<[line |-> "progress", n |-> i + 1,
                            ok |-> r.success_count, err |-> Len(r.errors)]>>
                    ELSE <<>>
       IN /\ Called(r, current_date.month, current_date.day, outcome)
          /\ console' = console \o r.printed \o block
    /\ current_date' = NextDate(current_date)
    /\ pc' = "throttle"
    /\ UNCHANGED <<i, csvFile, jsonFile, server, sleeps, ioLog>>

SleepsAlways(n) == TRUE
ShouldSleep(n) == n < LastSleepIndex

\* Lines 105-107 and the loop's next iteration or end
ThrottleStep ==
    /\ pc = "throttle"
    /\ IF ShouldSleep(i)
       THEN sleeps' = sleeps + 1 /\ unslept' = 0
       ELSE UNCHANGED <<sleeps, unslept>>
    /\ IF i + 1 < NumDays
       THEN i' = i + 1 /\ pc' = "fetch"
       ELSE i' = i /\ pc' = "summary"
    /\ UNCHANGED <<current_date, data, errors, success_count, console, csvFile,
                   jsonFile, server, calls, extracted, last, ioLog>>

\* Lines 109-116
Summary ==
    /\ pc = "summary"
    /\ console' = Append(console,
           [line |-> "summary", ok |-> success_count, err |-> Len(errors),
            details |-> SubSeq(errors, 1, IF Len(errors) < ErrorsShown
                                          THEN Len(errors) ELSE ErrorsShown)])
    /\ pc' = "statistics"
    /\ UNCHANGED <<i, current_date, data, errors, success_count, csvFile, jsonFile,
                   server, calls, sleeps, unslept, extracted, last, ioLog>>

\* Lines 145-154 (the rate's formatting is not modelled)
PrintStatistics ==
    /\ pc = "statistics"
    /\ LET total == Len(data.ks)
           with_data == Cardinality({n \in 1..total : Strip(data.vs[n]) # <<>>})
       IN console' = Append(console,
              [line |-> "statistics", total |-> total, with_data |-> with_data,
               without |-> total - with_data])
    /\ pc' = "sample"
    /\ UNCHANGED <<i, current_date, data, errors, success_count, csvFile, jsonFile,
                   server, calls, sleeps, unslept, extracted, last, ioLog>>

\* Lines 156-161, called as show_sample(15)
ShowSample ==
    /\ pc = "sample"
    /\ LET keys == SortedKeys(data)
           count == IF Len(keys) < SampleCount THEN Len(keys) ELSE SampleCount
       IN console' = console \o
              [n \in 1..count |->
                  [line |-> "sample",
                   text |-> keys[n] \o <<":", " ">>
                            \o Truncate(DictGet(data, keys[n]), SampleLen)]]
    /\ pc' = "csv"
    /\ UNCHANGED <<i, current_date, data, errors, success_count, csvFile, jsonFile,
                   server, calls, sleeps, unslept, extracted, last, ioLog>>

\* Lines 118-131
SaveToCsv ==
    /\ pc = "csv"
    /\ \E io \in IOOutcomes, k \in PartialLengths :
          /\ csvFile' = FileAfter(csvFile, CsvRows(data), io, k)
          /\ ioLog' = [ioLog EXCEPT !.csv = io]
          /\ IF io = "ok"
             THEN console' = Append(console, [line |-> "csv_saved"]) /\ pc' = "json"
             ELSE IF CaughtAsIOError("OSError")
             THEN console' = Append(console, [line |-> "csv_error"]) /\ pc' = "json"
             ELSE console' = console /\ pc' = "crashed"
    /\ UNCHANGED <<i, current_date, data, errors, success_count, jsonFile, server,
                   calls, sleeps, unslept, extracted, last>>

\* Lines 133-143
SaveToJson ==
    /\ pc = "json"
    /\ \E io \in IOOutcomes, k \in PartialLengths :
          /\ jsonFile' = FileAfter(jsonFile, JsonMembers(data), io, k)
          /\ ioLog' = [ioLog EXCEPT !.json = io]
          /\ IF io = "ok"
             THEN console' = Append(console, [line |-> "json_saved"]) /\ pc' = "finish"
             ELSE IF CaughtAsIOError("OSError")
             THEN console' = Append(console, [line |-> "json_error"]) /\ pc' = "finish"
             ELSE console' = console /\ pc' = "crashed"
    /\ UNCHANGED <<i, current_date, data, errors, success_count, csvFile, server,
                   calls, sleeps, unslept, extracted, last>>

\* Lines 181-184
Finish ==
    /\ pc = "finish"
    /\ console' = Append(console, [line |-> "completed"])
    /\ pc' = "done"
    /\ UNCHANGED <<i, current_date, data, errors, success_count, csvFile, jsonFile,
                   server, calls, sleeps, unslept, extracted, last, ioLog>>

Next ==
    \/ BeginFetchAll
    \/ FetchStep
    \/ ThrottleStep
    \/ Summary
    \/ PrintStatistics
    \/ ShowSample
    \/ SaveToCsv
    \/ SaveToJson
    \/ Finish

Spec == Init /\ [][Next]_vars

TypeOK ==
    /\ pc \in {"fetch_all", "fetch", "throttle", "summary", "statistics", "sample",
               "csv", "json", "finish", "done", "crashed"}
    /\ i \in 0..(NumDays - 1)
    /\ success_count \in 0..NumDays
    /\ Len(data.ks) = Len(data.vs)

----------------------------------------------------------------------------
(* Two consecutive calls of fetch_single_date, the second on a response   *)
(* drawn from a wide set of statuses and bodies                            *)

KFoo == <<"f", "o", "o">>
TextX == <<"X">>
TextY == <<"Y">>
TextBar == <<"b", "a", "r">>

\* Elements of the arrays tried
Elements ==
    {JNull, JInt(0), JStr(<<>>), JList(<<>>),
     JStr(TextA), JStr(TextB), JStr(TextC)}

Arrays == UNION {[1..n -> Elements] : n \in 0..MaxLen}

\* Values of the objects' members
MemberValues ==
    {JList(<<JStr(TextX), JStr(TextY)>>), JList(<<JNull, JStr(TextX)>>),
     JStr(TextBar), JNull}

KeyPool == {KEvents, KData, KAnniv, KAnniversaries, KItems, KFoo}

\* Sequences of distinct keys, at most MaxKeys long
KeySeqs ==
    UNION {{ks \in [1..n -> KeyPool] : \A a, b \in 1..n : a # b => ks[a] # ks[b]}
           : n \in 0..MaxKeys}

Objects ==
    UNION {{JDict(ks, vs) : vs \in [1..Len(ks) -> MemberValues]} : ks \in KeySeqs}

Scalars == {JNull, JBool(TRUE), JBool(FALSE), JInt(0), JInt(7), JStr(<<>>), JStr(TextBar)}

JsonValues == {JList(xs) : xs \in Arrays} \cup Objects \cup Scalars

Statuses == {200, 201, 204, 299, 300, 304, 399, 400, 404, 499, 500, 503, 599}

RawTexts == {<<>>, PlainBody, HelloBody, <<" ", "\n">>}

FewValues == {JList(<<JStr(TextA), JStr(TextB), JStr(TextC)>>),
              JDict(<<KEvents>>, <<JList(<<JStr(TextX), JStr(TextY)>>)>>)}

WideOutcomes ==
    {Raised("Timeout"), Raised("ConnectionError")}
    \cup {JsonOk(200, v) : v \in JsonValues}
    \cup {JsonOk(st, v) : st \in Statuses, v \in FewValues}
    \cup {TextOk(st, t) : st \in Statuses, t \in RawTexts}
    \cup {Received(Response(st, DeepBody, OtherError)) : st \in Statuses}

FirstOutcomes == {Raised("Timeout"), JsonOk(200, JList(<<JStr(TextA)>>))}

StartDates == {Date(StartYear, 1, 1), Date(StartYear, 2, 28)}

InitCalls ==
    /\ pc = "call"
    /\ server \in [usual : WideOutcomes, rare : FirstOutcomes, phase : {0}]
    /\ Constructed
    /\ current_date \in StartDates

\* fetch_single_date on the current date: the first call's outcome is
\* server.rare, the second's server.usual
CallFetch ==
    /\ pc = "call"
    /\ LET outcome == IF calls = <<>> THEN server.rare ELSE server.usual
           r == fetch_single_date(Self, current_date.month, current_date.day, outcome)
       IN /\ Called(r, current_date.month, current_date.day, outcome)
          /\ console' = console \o r.printed
    /\ current_date' = NextDate(current_date)
    /\ pc' = IF calls = <<>> THEN "call" ELSE "returned"
    /\ UNCHANGED <<i, csvFile, jsonFile, server, sleeps, ioLog>>

NextCalls == CallFetch

SpecCalls == InitCalls /\ [][NextCalls]_vars

----------------------------------------------------------------------------
(* Claims about one call of fetch_single_date (SpecCalls) *)

HasCall == last.month # 0
LastResponse == last.outcome.response
LastStored == DictGet(data, last.key)
Is2xx(status) == 200 <= status /\ status <= 299

\* The decision order of the extractor, stated from the claim: the
\* candidate keys in their order, the join rule, the string form.
ClaimedKeys == <<KEvents, KData, KAnniv, KAnniversaries, KItems>>

IsFalsy(v) ==
    v \in {JNull, JBool(FALSE), JInt(0), JStr(<<>>), JList(<<>>), JDict(<<>>, <<>>)}

NotFalsy(v) == ~IsFalsy(v)

JoinRule(xs) ==
    LET kept == SelectSeq(xs, NotFalsy)
    IN Join(<<Sep>>, [n \in 1..Len(kept) |-> PyStr(kept[n])])

Decided(v) ==
    IF v.t = "list" THEN JoinRule(v.xs)
    ELSE IF v.t = "dict"
    THEN LET present == {n \in 1..Len(ClaimedKeys) : HasKey(v, ClaimedKeys[n])}
         IN IF present = {} THEN JsonDumps(v)
            ELSE LET first == CHOOSE n \in present : \A m \in present : n <= m
                     value == Lookup(v, ClaimedKeys[first])
                 IN IF value.t = "list" THEN JoinRule(value.xs) ELSE PyStr(value)
    ELSE PyStr(v)

ExampleABC == JList(<<JStr(TextA), JStr(TextB), JStr(TextC)>>)
ExampleEvents == JDict(<<KEvents>>, <<JList(<<JStr(TextX), JStr(TextY)>>)>>)
ExampleFoo == JDict(<<KFoo>>, <<JStr(TextBar)>>)
ExampleBoth == JDict(<<KItems, KEvents>>, <<JStr(TextBar), JList(<<JNull, JStr(TextX)>>)>>)

\* C7: for every parsed JSON body, the text extract_anniversary_text
\* returns (and fetch_single_date stores) is the one the fixed decision
\* order gives: an array is the "、"-join of the string forms of its
\* non-falsy elements in order; an object is decided by the first of
\* events, data, anniv, anniversaries, items present in it (an array value
\* joined, any other value in string form); an object with none of them
\* is re-serialized as JSON; a scalar gives its string form.
C7_DecisionOrder ==
    (HasCall /\ last.ret /\ LastResponse.json.kind = "value") =>
        LET v == LastResponse.json.v
        IN /\ extract_anniversary_text(LastResponse) = Decided(v)
           /\ LastStored = Decided(v)
           /\ v = ExampleABC => LastStored = <<"A", Sep, "B", Sep, "C">>
           /\ v = ExampleEvents => LastStored = <<"X", Sep, "Y">>
           /\ v = ExampleFoo =>
                 LastStored = <<"{", "\"", "f", "o", "o", "\"", ":", " ",
                                "\"", "b", "a", "r", "\"", "}">>
           /\ v = ExampleBoth => LastStored = <<"X">>

C7_Witness ==
    /\ pc = "returned"
    /\ last.ret
    /\ LastResponse.json = Parsed(ExampleBoth)
    /\ LastStored = <<"X">>

\* r is t without its leading and trailing whitespace
IsTrimOf(r, t) ==
    /\ r = <<>> \/ (r[1] \notin Whitespace /\ r[Len(r)] \notin Whitespace)
    /\ \E a \in 0..Len(t) :
          /\ a + Len(r) <= Len(t)
          /\ r = SubSeq(t, a + 1, a + Len(r))
          /\ \A n \in 1..Len(t) : (n <= a \/ n > a + Len(r)) => t[n] \in Whitespace

\* C8: for every response received with a 2xx status, whatever its body,
\* fetch_single_date returns True, stores the extractor's string for the
\* DateKey (the trimmed raw body when the body is not JSON or the
\* extraction fails internally), adds one to success_count and appends
\* nothing to errors.
C8_BodyNeverAnError ==
    (HasCall /\ last.outcome.kind = "response" /\ Is2xx(LastResponse.status)) =>
        /\ last.ret
        /\ last.key \in Keys(data)
        /\ LastStored = extract_anniversary_text(LastResponse)
        /\ LastResponse.json.kind # "value" => IsTrimOf(LastStored, LastResponse.text)
        /\ success_count = last.before.success_count + 1
        /\ errors = last.before.errors

C8_Witness ==
    /\ pc = "returned"
    /\ last.outcome.kind = "response"
    /\ LastResponse.status = 204
    /\ LastResponse.json.kind = "RecursionError"
    /\ last.ret
    /\ success_count = last.before.success_count + 1

\* What the claim says a failed fetch leaves behind
FailureRecorded ==
    /\ ~last.ret
    /\ LastStored = <<>>
    /\ Len(errors) = Len(last.before.errors) + 1
    /\ SubSeq(errors, 1, Len(last.before.errors)) = last.before.errors
    /\ SubSeq(errors[Len(errors)], 1, 5) = last.key
    /\ success_count = last.before.success_count
    /\ last.extractor_calls = 0

\* C3 as stated: a network-layer error or ANY status that is not 2xx makes
\* the fetch a recorded failure.
C3_AnyNon2xxFails ==
    (HasCall /\ (last.outcome.kind = "exception" \/ ~Is2xx(LastResponse.status)))
        => FailureRecorded

\* C3 (amended): a network-layer error, or a response with a 4xx or 5xx
\* status, makes fetch_single_date return False, store the empty string
\* for the DateKey, append exactly one failure description for that
\* DateKey, leave success_count unchanged and not call the extractor.
C3_ErrorStatusFails ==
    (HasCall /\ (last.outcome.kind = "exception"
                 \/ (400 <= LastResponse.status /\ LastResponse.status <= 599)))
        => FailureRecorded

C3_Witness ==
    /\ pc = "returned"
    /\ last.outcome.kind = "response"
    /\ LastResponse.status = 404
    /\ FailureRecorded
    /\ last.before.errors # <<>>

----------------------------------------------------------------------------
(* Claims about the 365-day run (Spec) *)

AfterLoop == pc \in {"summary", "statistics", "sample", "csv", "json", "finish", "done"}

\* The non-leap calendar, stated from the claims
NonLeapDays == <<31, 28, 31, 30, 31, 30, 31, 31, 30, 31, 30, 31>>
TwoDigits(n) == <<DigitChar[(n \div 10) + 1], DigitChar[(n % 10) + 1]>>
CalendarKey(m, d) == TwoDigits(m) \o <<"-">> \o TwoDigits(d)
CalendarKeys == UNION {{CalendarKey(m, d) : d \in 1..NonLeapDays[m]} : m \in 1..12}
Feb29 == <<"0", "2", "-", "2", "9">>

CalledDates == {calls[n] : n \in 1..Len(calls)}
KeyOfCall(n) == DateKey(calls[n][1], calls[n][2])

\* C1: once fetch_all_365_days has completed, whatever succeeded or
\* failed, self.data has exactly 365 entries, its keys are exactly the
\* MM-DD keys of the non-leap calendar, and no key was written for two
\* different dates (365 different dates were fetched into 365 keys).
C1_AllDaysPresent ==
    AfterLoop =>
        /\ Len(data.ks) = 365
        /\ Cardinality(Keys(data)) = 365
        /\ Keys(data) = CalendarKeys
        /\ Feb29 \notin Keys(data)
        /\ Cardinality(CalledDates) = 365
        /\ Len(calls) = 365

C1_Witness ==
    /\ pc = "summary"
    /\ Len(data.ks) = 365
    /\ errors # <<>>
    /\ success_count > 0

\* The day after (m, d) in a non-leap year
Successor(c) == IF c[2] < NonLeapDays[c[1]] THEN <<c[1], c[2] + 1>> ELSE <<c[1] + 1, 1>>

DigitValue(c) == CHOOSE n \in 0..9 : DigitChar[n + 1] = c

\* k is MM-DD, two zero-padded digits on each side, reading m and d
IsKeyOf(k, m, d) ==
    /\ Len(k) = 5
    /\ k[3] = "-"
    /\ \A n \in {1, 2, 4, 5} : \E v \in 0..9 : DigitChar[v + 1] = k[n]
    /\ 10 * DigitValue(k[1]) + DigitValue(k[2]) = m
    /\ 10 * DigitValue(k[4]) + DigitValue(k[5]) = d

\* C2: the (month, day) pairs passed to fetch_single_date start at (1,1),
\* each is the day after the previous one in the non-leap calendar (so
\* (2,28) is followed by (3,1)), and the completed loop has passed exactly
\* 365 of them, ending at (12,31); every derived key is MM-DD with two
\* zero-padded digits on each side, the keys are distinct, none is 02-29.
C2_DateSequence ==
    /\ calls # <<>> =>
          /\ calls[1] = <<1, 1>>
          /\ Len(calls) >= 2 => calls[Len(calls)] = Successor(calls[Len(calls) - 1])
          /\ IsKeyOf(last.key, last.month, last.day)
          /\ last.key = KeyOfCall(Len(calls))
          /\ last.key # Feb29
          /\ last.key \notin Keys(last.before.data)
    /\ AfterLoop =>
          /\ Len(calls) = 365
          /\ calls[365] = <<12, 31>>
          /\ \A n \in 1..364 : calls[n + 1] = Successor(calls[n])
          /\ \A n \in 1..365 : IsKeyOf(KeyOfCall(n), calls[n][1], calls[n][2])
          /\ Cardinality({KeyOfCall(n) : n \in 1..365}) = 365

C2_Witness ==
    /\ pc = "summary"
    /\ calls[59] = <<2, 28>>
    /\ calls[60] = <<3, 1>>
    /\ data.ks[60] = <<"0", "3", "-", "0", "1">>
    /\ calls[365] = <<12, 31>>

\* C9: a sleep follows every fetch but the 365th: no two requests are
\* issued without a sleep between them, exactly one sleep separates two
\* consecutive fetches whether the earlier one succeeded or failed, and
\* the completed loop has slept exactly 364 times, not after the last fetch.
C9_Throttle ==
    /\ unslept <= 1
    /\ pc = "fetch" => unslept = 0 /\ sleeps = Len(calls)
    /\ pc = "throttle" => unslept = 1 /\ sleeps = Len(calls) - 1
    /\ AfterLoop => sleeps = 364 /\ Len(calls) = 365 /\ unslept = 1

C9_Witness ==
    /\ pc = "done"
    /\ sleeps = 364
    /\ errors # <<>>
    /\ success_count > 0

ErrorKey(n) == SubSeq(errors[n], 1, 5)

\* A fetch that the claims count as failed
CountsAsFailed(outcome) ==
    outcome.kind = "exception" \/ outcome.response.status >= 400

FailedKeys == {KeyOfCall(n) : n \in {m \in 1..Len(calls) : CountsAsFailed(OutcomeOf(m - 1))}}

IsReport(entry) == entry.line \in {"progress", "summary"}

C10_State ==
    /\ pc \in {"fetch", "throttle"} \/ AfterLoop =>
          /\ success_count + Len(errors) = Len(calls)
          /\ Len(data.ks) = Len(calls)
    /\ (console # <<>> /\ IsReport(console[Len(console)])) =>
          /\ console[Len(console)].ok = success_count
          /\ console[Len(console)].err = Len(errors)
          /\ console[Len(console)].ok + console[Len(console)].err = Len(calls)
    /\ (HasCall /\ ~last.ret) =>
          /\ Len(errors) = Len(last.before.errors) + 1
          /\ ErrorKey(Len(errors)) = last.key
          /\ DictGet(data, last.key) = <<>>
    /\ (HasCall /\ last.ret) => errors = last.before.errors
    /\ AfterLoop =>
          /\ success_count + Len(errors) = 365
          /\ \A n \in 1..Len(console) :
                console[n].line = "progress" =>
                   console[n].ok + console[n].err = console[n].n
          /\ \A n \in 1..Len(errors) : DictGet(data, ErrorKey(n)) = <<>>
          /\ \A n \in 1..(Len(errors) - 1) : LexLess(ErrorKey(n), ErrorKey(n + 1))
          /\ {ErrorKey(n) : n \in 1..Len(errors)} = FailedKeys
          /\ Len(errors) = Cardinality(FailedKeys)

C10_AppendOnly ==
    /\ Len(errors') >= Len(errors)
    /\ SubSeq(errors', 1, Len(errors)) = errors

\* C10: between fetch calls, in every progress block and in the summary,
\* success_count + len(errors) is the number of dates processed and the
\* number of entries of self.data; errors is append-only, holds exactly
\* one entry per failed DateKey, in the order the dates were fetched, and
\* every DateKey it names maps to the empty string.
C10_Accounting == []C10_State /\ [][C10_AppendOnly]_vars

C10_Witness ==
    /\ pc = "done"
    /\ Len(errors) > 3
    /\ success_count > 0
    /\ \E n \in 1..Len(console) : console[n].line = "progress" /\ console[n].err > 0

----------------------------------------------------------------------------
(* Claims about the exporters (Spec) *)

\* The number of "\n" in a sequence of texts
LineBreaks(texts) ==
    Cardinality(UNION {{<<r, n>> : n \in {m \in 1..Len(texts[r]) : texts[r][m] = "\n"}}
                       : r \in 1..Len(texts)})

HeaderLine == <<"d", "a", "t", "e", ",", "n", "a", "m", "e", "\r", "\n">>

\* C4 as stated: whatever the extractor returned, the CSV file has exactly
\* 366 lines and the JSON object exactly 365 keys.
C4_Exactly366Lines ==
    /\ ioLog.csv = "ok" => LineBreaks(csvFile) = 366
    /\ ioLog.json = "ok" => Len(jsonFile) = 365

\* C4 (amended): save_to_csv writes exactly 366 CSV records, the header
\* date,name and one record per DateKey; the file has 366 lines plus one
\* more for every line break inside a stored text (a quoted field keeps
\* it), so exactly 366 only when no stored text holds one.  save_to_json
\* writes one object with exactly 365 keys, the DateKeys.
C4_Exactly366Records ==
    /\ ioLog.csv = "ok" =>
          /\ Len(csvFile) = 366
          /\ csvFile[1] = HeaderLine
          /\ {SubSeq(csvFile[n], 1, 6) : n \in 2..366} = {k \o <<",">> : k \in CalendarKeys}
          /\ LineBreaks(csvFile) = 366 + LineBreaks(data.vs)
    /\ ioLog.json = "ok" =>
          /\ Len(jsonFile) = 365
          /\ {SubSeq(jsonFile[n], 1, 10) : n \in 1..365}
                = {<<" ", " ", "\"">> \o k \o <<"\"", ":">> : k \in CalendarKeys}

C4_Witness ==
    /\ pc = "done"
    /\ ioLog.csv = "ok"
    /\ ioLog.json = "ok"
    /\ errors # <<>>
    /\ LineBreaks(data.vs) > 0
    /\ LineBreaks(csvFile) > 366

IsPrefix(a, b) == Len(a) <= Len(b) /\ SubSeq(b, 1, Len(a)) = a

CsvFailedRow(k) == k \o <<",", "\r", "\n">>
JsonFailedMember(k) == <<" ", " ", "\"">> \o k \o <<"\"", ":", " ", "\"", "\"">>

C5_State ==
    /\ HasCall =>
          /\ last.key \notin Keys(last.before.data)
          /\ Len(data.ks) = Len(last.before.data.ks) + 1
          /\ data.ks[Len(data.ks)] = last.key
          /\ IsPrefix(last.before.data.ks, data.ks)
          /\ IsPrefix(last.before.data.vs, data.vs)
    /\ Len(data.ks) = Len(calls)
    /\ AfterLoop => Len(calls) = 365 /\ Cardinality(CalledDates) = 365
    /\ ioLog.csv = "ok" =>
          LET rows == {csvFile[n] : n \in 1..Len(csvFile)}
          IN \A n \in 1..Len(errors) :
                /\ DictGet(data, ErrorKey(n)) = <<>>
                /\ CsvFailedRow(ErrorKey(n)) \in rows
    /\ ioLog.json = "ok" =>
          LET members == {jsonFile[n] : n \in 1..Len(jsonFile)}
          IN \A n \in 1..Len(errors) :
                /\ DictGet(data, ErrorKey(n)) = <<>>
                /\ JsonFailedMember(ErrorKey(n)) \in members

C5_Step ==
    /\ IsPrefix(data.ks, data'.ks)
    /\ IsPrefix(data.vs, data'.vs)
    /\ Len(data'.ks) <= Len(data.ks) + 1
    /\ pc # "fetch" => data' = data /\ calls' = calls

\* C5: each DateKey is requested once (never retried) and its entry is
\* written once, when its fetch completes; no later fetch, report or
\* export changes or deletes it; so a failed DateKey still maps to the
\* empty string at export and has an empty value in both outputs.
C5_WrittenOnce == []C5_State /\ [][C5_Step]_vars

C5_Witness ==
    /\ pc = "done"
    /\ ioLog.csv = "ok"
    /\ ioLog.json = "ok"
    /\ errors # <<>>
    /\ success_count > 0
    /\ CsvFailedRow(ErrorKey(1)) \in {csvFile[n] : n \in 1..Len(csvFile)}

Printed(what) == \E n \in 1..Len(console) : console[n].line = what

C6_State ==
    /\ pc # "crashed"
    /\ ioLog.csv \in {"open_error", "write_error"} =>
          /\ pc \in {"json", "finish", "done"}
          /\ Printed("csv_error")
          /\ ~Printed("csv_saved")
    /\ ioLog.json \in {"open_error", "write_error"} =>
          /\ pc \in {"finish", "done"}
          /\ Printed("json_error")
          /\ ~Printed("json_saved")
    /\ ioLog.json = "ok" => jsonFile = JsonMembers(data) /\ Len(jsonFile) = 365
    /\ (ioLog.csv = "ok" /\ pc \in {"json", "finish", "done"}) => Len(csvFile) = 366
    /\ pc = "done" => console[Len(console)].line = "completed"

C6_Step ==
    /\ pc \in {"csv", "json", "finish"} => data' = data /\ errors' = errors
    /\ pc = "csv" => pc' = "json"
    /\ pc = "json" => pc' = "finish" /\ csvFile' = csvFile
    /\ pc = "finish" => pc' = "done" /\ csvFile' = csvFile /\ jsonFile' = jsonFile

\* C6: a failure writing anniversaries.csv does not keep save_to_json
\* from being called and from succeeding; a failure writing
\* anniversaries.json leaves the CSV file as written; either failure is
\* printed, self.data stays as it was, and main goes on to its completion
\* message.
C6_ExportersIndependent == []C6_State /\ [][C6_Step]_vars

C6_Witness ==
    /\ pc = "done"
    /\ ioLog.csv = "write_error"
    /\ ioLog.json = "ok"
    /\ Len(jsonFile) = 365
    /\ Printed("csv_error")
    /\ console[Len(console)].line = "completed"

====
